---- MODULE Spec2Model ----
(***************************************************************************)
(* Model of the watermarking program: apply_watermark.py (load_font,       *)
(* apply_text_watermark, apply_watermark, process_images) and the preview  *)
(* pipeline of app.py.                                                     *)
(***************************************************************************)
EXTENDS Integers, Sequences, FiniteSets, TLC

VARIABLES cfg, pc, output_image, steps, diag, outcome,
          fs, font_cache, font_ret, probes, nloads, call,
          workers, batch

vars == <<cfg, pc, output_image, steps, diag, outcome,
          fs, font_cache, font_ret, probes, nloads, call,
          workers, batch>>

pipeVars == <<cfg, pc, output_image, steps, diag, outcome>>
fontVars == <<fs, font_cache, font_ret, probes, nloads, call>>
\* threads inside load_font, and the loop of process_images
loopVars == <<workers, batch>>

\* Python's None where a string is optional: no string has this element
None == <<"None">>

(***************************************************************************)
(* Double-precision arithmetic of int(width * scale_factor).               *)
(* A scale factor is the double nearest to the decimal literal num/den;    *)
(* hex and exp are its float.hex() form 0x1.<13 hex digits>p<exp>.         *)
(***************************************************************************)
ScaleFactors ==
  << [num |-> 15, den |-> 100, exp |-> -3,
      hex |-> <<3, 3, 3, 3, 3, 3, 3, 3, 3, 3, 3, 3, 3>>],
     [num |-> 18, den |-> 100, exp |-> -3,
      hex |-> <<7, 0, 10, 3, 13, 7, 0, 10, 3, 13, 7, 0, 10>>],
     [num |-> 20, den |-> 100, exp |-> -3,
      hex |-> <<9, 9, 9, 9, 9, 9, 9, 9, 9, 9, 9, 9, 10>>],
     [num |-> 25, den |-> 100, exp |-> -2,
      hex |-> <<0, 0, 0, 0, 0, 0, 0, 0, 0, 0, 0, 0, 0>>],
     [num |-> 29, den |-> 100, exp |-> -2,
      hex |-> <<2, 8, 15, 5, 12, 2, 8, 15, 5, 12, 2, 8, 15>>] >>

\* four hex digits of the significand as one 16-bit limb
Hex4(h, i) == ((h[i] * 16 + h[i + 1]) * 16 + h[i + 2]) * 16 + h[i + 3]

Pow2(k) == <<1, 2, 4, 8, 16, 32, 64, 128, 256, 512, 1024, 2048, 4096, 8192,
             16384, 32768, 65536, 131072, 262144>>[k + 1]

RECURSIVE BitLen(_)
BitLen(n) == IF n = 0 THEN 0 ELSE 1 + BitLen(n \div 2)

\* int(n * scale) for 0 <= n < 2^13: the exact product of n and the 53-bit
\* significand (limbs top, r1, r2, r3 of 16 bits below top) is rounded to 53
\* significant bits, ties to even, and then truncated toward zero
PyIntMul(n, sf) ==
  IF n = 0 THEN 0
  ELSE LET t3 == n * Hex4(sf.hex, 10)
           r3 == t3 % 65536
           t2 == n * Hex4(sf.hex, 6) + t3 \div 65536
           r2 == t2 % 65536
           t1 == n * Hex4(sf.hex, 2) + t2 \div 65536
           r1 == t1 % 65536
           top == n * (16 + sf.hex[1]) + t1 \div 65536
           \* the product is (top, r1, r2, r3) * 2^(exp - 52)
           f == 4 - sf.exp           \* fraction bits held in top
           d == BitLen(top) - 5      \* bits the rounding drops
           rem == r3 % Pow2(d)
           half == IF d = 0 THEN 1 ELSE Pow2(d - 1)
           lsb == (r3 \div Pow2(d)) % 2
           roundUp == d > 0 /\ (rem > half \/ (rem = half /\ lsb = 1))
           fractionAllOnes == /\ top % Pow2(f) = Pow2(f) - 1
                              /\ r1 = 65535
                              /\ r2 = 65535
                              /\ r3 \div Pow2(d) = Pow2(16 - d) - 1
       IN  top \div Pow2(f) + (IF roundUp /\ fractionAllOnes THEN 1 ELSE 0)

\* int(a / b) for small non-negative a and positive b: the true quotient is
\* an integer or at least 1/b away from one, so the double quotient truncates
\* to the exact floor
PyIntDiv(a, b) == a \div b

(***************************************************************************)
(* Strings are sequences of one-character strings, so that lower(),        *)
(* strip(), splitext() and the cache key's formatting are computed.        *)
(***************************************************************************)
Upper == <<"A","B","C","D","E","F","G","H","I","J","K","L","M",
           "N","O","P","Q","R","S","T","U","V","W","X","Y","Z">>
Lower == <<"a","b","c","d","e","f","g","h","i","j","k","l","m",
           "n","o","p","q","r","s","t","u","v","w","x","y","z">>

LowerChar(c) ==
  IF \E i \in 1..26 : Upper[i] = c
    THEN Lower[CHOOSE i \in 1..26 : Upper[i] = c]
    ELSE c

\* str.lower()
StrLower(s) == [i \in 1..Len(s) |-> LowerChar(s[i])]

IsSpace(c) == c \in {" ", "\n", "\t"}

\* str.strip()
RECURSIVE LStrip(_)
LStrip(s) == IF s # <<>> /\ IsSpace(Head(s)) THEN LStrip(Tail(s)) ELSE s

RECURSIVE RStrip(_)
RStrip(s) ==
  IF s # <<>> /\ IsSpace(s[Len(s)]) THEN RStrip(SubSeq(s, 1, Len(s) - 1)) ELSE s

Strip(s) == RStrip(LStrip(s))

\* truth value of an Optional[str]
Truthy(s) == s # None /\ s # <<>>

\* str(n) for an integer n
DigitChars == <<"0","1","2","3","4","5","6","7","8","9">>

RECURSIVE NatStr(_)
NatStr(n) ==
  IF n < 10 THEN <<DigitChars[n + 1]>>
  ELSE NatStr(n \div 10) \o <<DigitChars[(n % 10) + 1]>>

IntStr(n) == IF n < 0 THEN <<"-">> \o NatStr(0 - n) ELSE NatStr(n)

\* os.path.splitext(name)[1] of a file name without directories: the part
\* from the last dot on, leading dots of the name not counted
LastDot(s) ==
  IF \E i \in 1..Len(s) : s[i] = "."
    THEN CHOOSE i \in 1..Len(s) : s[i] = "." /\ \A j \in (i + 1)..Len(s) : s[j] # "."
    ELSE 0

LeadingDots(s, i) == \A j \in 1..i : s[j] = "."

SplitExt(s) ==
  LET i == LastDot(s)
  IN  IF i = 0 \/ LeadingDots(s, i) THEN <<>> ELSE SubSeq(s, i, Len(s))

\* str.endswith(suffix)
EndsWith(s, suffix) ==
  /\ Len(s) >= Len(suffix)
  /\ SubSeq(s, Len(s) - Len(suffix) + 1, Len(s)) = suffix

ExtJpg == <<".", "j", "p", "g">>
ExtJpeg == <<".", "j", "p", "e", "g">>

(***************************************************************************)
(* load_font                                                               *)
(***************************************************************************)
TimesNewRoman == <<"T","i","m","e","s"," ","N","e","w"," ","R","o","m","a","n">>
TimesUpper == <<"T","I","M","E","S">>
Inter == <<"I","n","t","e","r">>
FamilyA == <<"A">>
FamilyA1 == <<"A","_","1">>

times_paths ==
  << "C:/Windows/Fonts/times.ttf",
     "C:/Windows/Fonts/Times.ttf",
     "C:/Windows/Fonts/timesnewroman.ttf",
     "C:/Windows/Fonts/TimesNewRoman.ttf",
     "/usr/share/fonts/truetype/liberation/LiberationSerif-Regular.ttf",
     "/usr/share/fonts/truetype/times/Times-Roman.ttf",
     "/Library/Fonts/Times New Roman.ttf",
     "/System/Library/Fonts/Times.ttc" >>

inter_paths ==
  << "C:/Windows/Fonts/Inter-Regular.ttf",
     "C:/Windows/Fonts/inter.ttf",
     "/usr/share/fonts/truetype/inter/Inter-Regular.ttf",
     "/usr/share/fonts/Inter-Regular.ttf",
     "/Library/Fonts/Inter-Regular.ttf",
     "/System/Library/Fonts/Inter-Regular.ttf",
     "fonts/Inter-Regular.ttf",
     "./Inter-Regular.ttf" >>

fallback_fonts ==
  << "times.ttf", "Times.ttf", "arial.ttf", "Arial.ttf",
     "DejaVuSans.ttf", "LiberationSans-Regular.ttf" >>

Range(q) == {q[i] : i \in 1..Len(q)}

FontPaths == Range(times_paths) \cup Range(inter_paths) \cup Range(fallback_fonts)

PILDefault == "PIL default"

\* os.path.exists(path)
PathExists(filesystem, path) == filesystem[path] # "absent"

\* ImageFont.truetype(path, size) returns a font (it raises otherwise)
TrueTypeLoads(filesystem, path, size) == filesystem[path] = "font" /\ size > 0

\* for font_path in paths: if os.path.exists(font_path): try truetype ...
\* break on the first that loads; [found, probes]
RECURSIVE TryPaths(_, _, _, _)
TryPaths(paths, filesystem, size, probed) ==
  IF paths = <<>> THEN [found |-> None, probes |-> probed]
  ELSE LET path == Head(paths)
           p1 == Append(probed, <<"exists", path>>)
       IN  IF PathExists(filesystem, path)
             THEN IF TrueTypeLoads(filesystem, path, size)
                    THEN [found |-> <<path>>,
                          probes |-> Append(p1, <<"truetype", path>>)]
                    ELSE TryPaths(Tail(paths), filesystem, size,
                                  Append(p1, <<"truetype", path>>))
             ELSE TryPaths(Tail(paths), filesystem, size, p1)

\* for fallback in fallback_fonts: try truetype ... break on the first
RECURSIVE TryFallbacks(_, _, _, _)
TryFallbacks(names, filesystem, size, probed) ==
  IF names = <<>> THEN [found |-> None, probes |-> probed]
  ELSE LET name == Head(names)
           p1 == Append(probed, <<"truetype", name>>)
       IN  IF TrueTypeLoads(filesystem, name, size)
             THEN [found |-> <<name>>, probes |-> p1]
             ELSE TryFallbacks(Tail(names), filesystem, size, p1)

\* the candidate list of the family branch taken
CandidatePaths(font_name) ==
  IF StrLower(font_name) \in
       { <<"t","i","m","e","s"," ","n","e","w"," ","r","o","m","a","n">>,
         <<"t","i","m","e","s">> }
    THEN times_paths
  ELSE IF StrLower(font_name) = <<"i","n","t","e","r">>
    THEN inter_paths
  ELSE <<>>

\* variant: a key without the size
CacheKeyNameOnly(font_name, font_size) == font_name

\* cache_key = f"{font_name}_{font_size}"
CacheKey(font_name, font_size) == font_name \o <<"_">> \o IntStr(font_size)

\* variant: the family's files, then the default at once
ResolveFontNoFallback(font_name, font_size, filesystem) ==
  LET own == TryPaths(CandidatePaths(font_name), filesystem, font_size, <<>>)
  IN  IF own.found # None
        THEN [src |-> own.found[1], probes |-> own.probes,
              prints |-> <<"Loaded font from">>]
        ELSE [src |-> PILDefault, probes |-> own.probes,
              prints |-> <<"Warning: font not found", "Warning: using PIL default font">>]

\* the body of load_font after a cache miss (lines 92-168):
\* [src, probes, prints]
ResolveFont(font_name, font_size, filesystem) ==
  LET own == TryPaths(CandidatePaths(font_name), filesystem, font_size, <<>>)
      fb  == TryFallbacks(fallback_fonts, filesystem, font_size, own.probes)
  IN  IF own.found # None
        THEN [src |-> own.found[1], probes |-> own.probes,
              prints |-> <<"Loaded font from">>]
      ELSE IF fb.found # None
        THEN [src |-> fb.found[1], probes |-> fb.probes,
              prints |-> <<"Warning: font not found", "Using fallback font">>]
      ELSE [src |-> PILDefault, probes |-> fb.probes,
            prints |-> <<"Warning: font not found", "Warning: using PIL default font">>]

\* load_font(font_name, font_size) on a cache and a filesystem; n counts the
\* font objects created so far, so that each new object has its own identity
LoadFont(font_name, font_size, cache, filesystem, n) ==
  LET cache_key == CacheKey(font_name, font_size)
  IN  IF cache_key \in DOMAIN cache
        THEN [font |-> cache[cache_key], cache |-> cache, probes |-> <<>>,
              prints |-> <<>>, n |-> n, hit |-> TRUE]
        ELSE LET r == ResolveFont(font_name, font_size, filesystem)
                 font == [src |-> r.src,
                          size |-> IF r.src = PILDefault THEN 0 ELSE font_size,
                          id |-> n + 1]
             IN  [font |-> font,
                  cache |-> [k \in DOMAIN cache \cup {cache_key} |->
                               IF k = cache_key THEN font ELSE cache[k]],
                  probes |-> r.probes, prints |-> r.prints, n |-> n + 1,
                  hit |-> FALSE]

(***************************************************************************)
(* apply_text_watermark                                                    *)
(***************************************************************************)
\* variant: any other value is taken as top-left
TextOriginElseTopLeft(position, padding, W, H, text_width, text_height) ==
  IF position = "bottom-left" THEN <<padding, H - text_height - padding>>
  ELSE IF position = "bottom-right"
    THEN <<W - text_width - padding, H - text_height - padding>>
  ELSE IF position = "top-right" THEN <<W - text_width - padding, padding>>
  ELSE <<padding, padding>>

\* the draw origin for a position (lines 208-223)
TextOrigin(position, padding, W, H, text_width, text_height) ==
  IF position = "bottom-left" THEN <<padding, H - text_height - padding>>
  ELSE IF position = "bottom-right"
    THEN <<W - text_width - padding, H - text_height - padding>>
  ELSE IF position = "top-left" THEN <<padding, padding>>
  ELSE IF position = "top-right" THEN <<W - text_width - padding, padding>>
  ELSE <<padding, H - text_height - padding>>

\* variant: skips every offset with a zero component
OutlineOffsetBoth(offset_x, offset_y) == offset_x # 0 /\ offset_y # 0

\* if offset_x != 0 or offset_y != 0
OutlineOffset(offset_x, offset_y) == offset_x # 0 \/ offset_y # 0

DrawText(x, y, fill) == [kind |-> "text", xy |-> <<x, y>>, arg |-> fill]

\* for offset_y in range(-outline_width, outline_width + 1)
RECURSIVE OutlineRow(_, _, _, _, _)
OutlineRow(x, y, offset_x, offset_y, outline_width) ==
  IF offset_y >= outline_width + 1 THEN <<>>
  ELSE (IF OutlineOffset(offset_x, offset_y)
          THEN <<DrawText(x + offset_x, y + offset_y, "outline_color")>>
          ELSE <<>>)
       \o OutlineRow(x, y, offset_x, offset_y + 1, outline_width)

\* for offset_x in range(-outline_width, outline_width + 1)
RECURSIVE OutlineDraws(_, _, _, _)
OutlineDraws(x, y, offset_x, outline_width) ==
  IF offset_x >= outline_width + 1 THEN <<>>
  ELSE OutlineRow(x, y, offset_x, 0 - outline_width, outline_width)
       \o OutlineDraws(x, y, offset_x + 1, outline_width)

\* the draw.text calls of apply_text_watermark, in order (lines 225-238);
\* bbox is the measured <<text_width, text_height>> of draw.textbbox
ApplyTextWatermark(W, H, bbox, position, padding, outline_width) ==
  LET o == TextOrigin(position, padding, W, H, bbox[1], bbox[2])
  IN  OutlineDraws(o[1], o[2], 0 - outline_width, outline_width)
      \o <<DrawText(o[1], o[2], "color")>>

(***************************************************************************)
(* The two pipelines: apply_watermark (batch) and the preview of app.py.   *)
(* cfg holds the arguments of one invocation and what the environment      *)
(* answers: wm is the overlay file ("none": no path or logo given,         *)
(* "missing": the path does not exist, "corrupt": it cannot be opened,     *)
(* "ok"), bbox the text size draw.textbbox measures, measure_ok whether    *)
(* measuring and drawing the text succeed.                                 *)
(***************************************************************************)
Anchors == {"top-left", "top-right", "bottom-left", "bottom-right"}

\* variant: rounds the exact products to nearest
WatermarkSizeRounded(width, sf, ow, oh) ==
  LET watermark_width == (2 * width * sf.num + sf.den) \div (2 * sf.den)
  IN  <<watermark_width, (2 * watermark_width * oh + ow) \div (2 * ow)>>

\* watermark size (apply_watermark, lines 284-285)
WatermarkSize(width, sf, ow, oh) ==
  LET watermark_width == PyIntMul(width, sf)
  IN  <<watermark_width, PyIntDiv(watermark_width * oh, ow)>>

\* logo size (app.py, lines 159-160)
LogoSize(img_width, sf, ow, oh) ==
  LET logo_width == PyIntMul(img_width, sf)
  IN  <<logo_width, PyIntDiv(logo_width * oh, ow)>>

\* watermark position (apply_watermark, lines 291-294): bottom-right
WatermarkPosition(W, H, size, padding) ==
  <<W - size[1] - padding, H - size[2] - padding>>

\* variant: bottom-left and top-right exchanged
LogoPosSwapped(logo_position, W, H, size, logo_padding) ==
  IF logo_position = "bottom-right"
    THEN <<W - size[1] - logo_padding, H - size[2] - logo_padding>>
  ELSE IF logo_position = "bottom-left"
    THEN <<W - size[1] - logo_padding, logo_padding>>
  ELSE IF logo_position = "top-right"
    THEN <<logo_padding, H - size[2] - logo_padding>>
  ELSE <<logo_padding, logo_padding>>

\* logo position (app.py, lines 164-172)
LogoPos(logo_position, W, H, size, logo_padding) ==
  IF logo_position = "bottom-right"
    THEN <<W - size[1] - logo_padding, H - size[2] - logo_padding>>
  ELSE IF logo_position = "bottom-left"
    THEN <<logo_padding, H - size[2] - logo_padding>>
  ELSE IF logo_position = "top-right"
    THEN <<W - size[1] - logo_padding, logo_padding>>
  ELSE <<logo_padding, logo_padding>>

\* Image.resize raises ValueError unless width and height are > 0
ResizeOk(size) == size[1] > 0 /\ size[2] > 0

Overlay(xy, size) == [kind |-> "overlay", xy |-> xy, arg |-> size]

\* if the image is not RGBA, convert it
NormaliseMode(mode) == IF mode # "RGBA" THEN "RGBA" ELSE mode

\* apply_watermark, line 304 and app.py, line 182: if text_watermark
TextStepRuns(text) == Truthy(text)

\* variant: the extension is compared as written
BatchFlattensCaseSensitive(name) == SplitExt(name) \in {ExtJpg, ExtJpeg}

\* apply_watermark, lines 324-325
BatchFlattens(name) == StrLower(SplitExt(name)) \in {ExtJpg, ExtJpeg}

\* app.py, line 203
PreviewFlattens(name) ==
  EndsWith(StrLower(name), ExtJpg) \/ EndsWith(StrLower(name), ExtJpeg)

Say(step, msgs) == [i \in 1..Len(msgs) |-> [step |-> step, msg |-> msgs[i]]]

W == cfg.base[1]
H == cfg.base[2]

NoFont == [src |-> "none", size |-> 0, id |-> 0]
NoCall == [name |-> <<>>, size |-> 0, hit |-> FALSE, key |-> <<>>]
\* no thread is inside load_font; process_images is not running
NoWorkers == <<>>
NoBatch == [at |-> "off"]

\* ---- apply_watermark ----

\* lines 272-277: open, convert to RGBA, copy
BatchOpen ==
  /\ cfg.pipeline = "batch" /\ pc = "start"
  /\ output_image' = [mode |-> NormaliseMode(cfg.mode), layers |-> <<>>]
  /\ steps' = Append(steps, "rgba")
  /\ pc' = "overlay"
  /\ UNCHANGED <<cfg, diag, outcome>>
  /\ UNCHANGED fontVars
  /\ UNCHANGED loopVars

\* lines 279-301: no handler surrounds the overlay step, so what Image.open
\* or resize raise leaves apply_watermark
BatchOverlay ==
  /\ cfg.pipeline = "batch" /\ pc = "overlay"
  /\ LET size == WatermarkSize(W, ScaleFactors[cfg.scale],
                               cfg.wm_size[1], cfg.wm_size[2])
         position == WatermarkPosition(W, H, size, cfg.padding)
     IN  IF cfg.wm \in {"corrupt", "ok"}
           THEN IF cfg.wm = "ok" /\ ResizeOk(size)
                  THEN /\ output_image' =
                            [output_image EXCEPT
                               !.layers = Append(@, Overlay(position, size))]
                       /\ steps' = Append(steps, "overlay")
                       /\ pc' = "text"
                       /\ UNCHANGED outcome
                  ELSE /\ pc' = "raised"
                       /\ outcome' = "raised"
                       /\ UNCHANGED <<output_image, steps>>
           ELSE /\ pc' = "text"
                /\ UNCHANGED <<output_image, steps, outcome>>
  /\ UNCHANGED <<cfg, diag>>
  /\ UNCHANGED fontVars
  /\ UNCHANGED loopVars

\* lines 303-321
BatchText ==
  /\ cfg.pipeline = "batch" /\ pc = "text"
  /\ IF TextStepRuns(cfg.text)
       THEN LET lf == LoadFont(TimesNewRoman, cfg.font_size, font_cache, fs, nloads)
            IN  /\ font_cache' = lf.cache
                /\ font_ret' = lf.font
                /\ probes' = lf.probes
                /\ nloads' = lf.n
                /\ call' = [name |-> TimesNewRoman, size |-> cfg.font_size,
                            hit |-> lf.hit,
                            key |-> CacheKey(TimesNewRoman, cfg.font_size)]
                /\ IF cfg.measure_ok
                     THEN /\ output_image' =
                               [output_image EXCEPT !.layers = @ \o
                                  ApplyTextWatermark(W, H, cfg.bbox, "bottom-left",
                                     cfg.text_padding, cfg.outline_width)]
                          /\ steps' = steps \o <<"font", "text">>
                          /\ diag' = diag \o Say("font", lf.prints)
                     ELSE /\ steps' = Append(steps, "font")
                          /\ diag' = diag \o Say("font", lf.prints)
                                     \o Say("text", <<"Error applying text watermark">>)
                          /\ UNCHANGED output_image
       ELSE UNCHANGED <<output_image, steps, diag, font_cache, font_ret,
                        probes, nloads, call>>
  /\ pc' = "flatten"
  /\ UNCHANGED <<cfg, outcome, fs>>
  /\ UNCHANGED loopVars

\* lines 323-330
BatchFlatten ==
  /\ cfg.pipeline = "batch" /\ pc = "flatten"
  /\ IF BatchFlattens(cfg.name)
       THEN /\ output_image' = [output_image EXCEPT !.mode = "RGB"]
            /\ steps' = Append(steps, "flatten")
       ELSE UNCHANGED <<output_image, steps>>
  /\ pc' = "save"
  /\ UNCHANGED <<cfg, diag, outcome>>
  /\ UNCHANGED fontVars
  /\ UNCHANGED loopVars

\* lines 332-336
BatchSave ==
  /\ cfg.pipeline = "batch" /\ pc = "save"
  /\ outcome' = "saved"
  /\ steps' = Append(steps, "save")
  /\ pc' = "done"
  /\ UNCHANGED <<cfg, output_image, diag>>
  /\ UNCHANGED fontVars
  /\ UNCHANGED loopVars

\* ---- app.py preview ----

\* lines 146-151: copy, convert to RGBA
PreviewCopy ==
  /\ cfg.pipeline = "preview" /\ pc = "start"
  /\ output_image' = [mode |-> NormaliseMode(cfg.mode), layers |-> <<>>]
  /\ steps' = Append(steps, "rgba")
  /\ pc' = "overlay"
  /\ UNCHANGED <<cfg, diag, outcome>>
  /\ UNCHANGED fontVars
  /\ UNCHANGED loopVars

\* lines 153-179: try ... except Exception: st.error
PreviewLogo ==
  /\ cfg.pipeline = "preview" /\ pc = "overlay"
  /\ LET size == LogoSize(W, ScaleFactors[cfg.scale],
                          cfg.wm_size[1], cfg.wm_size[2])
         logo_pos == LogoPos(cfg.logo_position, W, H, size, cfg.padding)
     IN  IF cfg.wm # "none"
           THEN IF cfg.wm = "ok" /\ ResizeOk(size)
                  THEN /\ output_image' =
                            [output_image EXCEPT
                               !.layers = Append(@, Overlay(logo_pos, size))]
                       /\ steps' = Append(steps, "overlay")
                       /\ UNCHANGED diag
                  ELSE /\ diag' = diag \o Say("overlay", <<"Error applying logo">>)
                       /\ UNCHANGED <<output_image, steps>>
           ELSE UNCHANGED <<output_image, steps, diag>>
  /\ pc' = "text"
  /\ UNCHANGED <<cfg, outcome>>
  /\ UNCHANGED fontVars
  /\ UNCHANGED loopVars

\* lines 181-196
PreviewText ==
  /\ cfg.pipeline = "preview" /\ pc = "text"
  /\ IF TextStepRuns(cfg.text)
       THEN LET lf == LoadFont(TimesNewRoman, cfg.font_size, font_cache, fs, nloads)
            IN  /\ font_cache' = lf.cache
                /\ font_ret' = lf.font
                /\ probes' = lf.probes
                /\ nloads' = lf.n
                /\ call' = [name |-> TimesNewRoman, size |-> cfg.font_size,
                            hit |-> lf.hit,
                            key |-> CacheKey(TimesNewRoman, cfg.font_size)]
                /\ IF cfg.measure_ok
                     THEN /\ output_image' =
                               [output_image EXCEPT !.layers = @ \o
                                  ApplyTextWatermark(W, H, cfg.bbox, cfg.text_position,
                                     cfg.text_padding, cfg.outline_width)]
                          /\ steps' = steps \o <<"font", "text">>
                          /\ diag' = diag \o Say("font", lf.prints)
                     ELSE /\ steps' = Append(steps, "font")
                          /\ diag' = diag \o Say("font", lf.prints)
                                     \o Say("text", <<"Error applying text">>)
                          /\ UNCHANGED output_image
       ELSE UNCHANGED <<output_image, steps, diag, font_cache, font_ret,
                        probes, nloads, call>>
  /\ pc' = "flatten"
  /\ UNCHANGED <<cfg, outcome, fs>>
  /\ UNCHANGED loopVars

\* lines 198-207
PreviewFlatten ==
  /\ cfg.pipeline = "preview" /\ pc = "flatten"
  /\ IF PreviewFlattens(cfg.name)
       THEN /\ output_image' = [output_image EXCEPT !.mode = "RGB"]
            /\ steps' = Append(steps, "flatten")
       ELSE UNCHANGED <<output_image, steps>>
  /\ pc' = "save"
  /\ UNCHANGED <<cfg, diag, outcome>>
  /\ UNCHANGED fontVars
  /\ UNCHANGED loopVars

\* lines 209-213
PreviewSave ==
  /\ cfg.pipeline = "preview" /\ pc = "save"
  /\ outcome' = "saved"
  /\ steps' = Append(steps, "save")
  /\ pc' = "done"
  /\ UNCHANGED <<cfg, output_image, diag>>
  /\ UNCHANGED fontVars
  /\ UNCHANGED loopVars

(***************************************************************************)
(* The invocations explored.                                               *)
(***************************************************************************)
BaseSizes == {<<1000, 800>>, <<100, 60>>, <<7, 5>>}
OverlaySizes == {<<400, 300>>, <<3, 5>>}
Paddings == {0, 10}
PipeOutlines == {0, 1}
FileJpg == <<"a", ".", "j", "p", "g">>
FileJPG == <<"a", ".", "J", "P", "G">>
FilePng == <<"a", ".", "p", "n", "g">>
\* <<file name, mode of the decoded image>>
Files == {<<FileJpg, "RGB">>, <<FileJPG, "RGB">>, <<FilePng, "RGB">>,
          <<FilePng, "RGBA">>}
Blank == <<" ">>
Word == <<"a">>

Config(pipeline, file, base, ov, tx) ==
  [pipeline |-> pipeline, name |-> file[1], mode |-> file[2], base |-> base,
   wm |-> ov[1], wm_size |-> ov[2], scale |-> ov[3], padding |-> ov[4],
   logo_position |-> ov[5],
   text |-> tx[1], text_position |-> tx[2], text_padding |-> tx[3],
   outline_width |-> tx[4], bbox |-> tx[5], measure_ok |-> tx[6],
   font_size |-> 40]

OverlayChoices(pipeline) ==
  {<<w, <<400, 300>>, 1, 10, "bottom-right">> :
      w \in IF pipeline = "batch" THEN {"none", "missing", "corrupt"}
            ELSE {"none", "corrupt"}}
  \cup {<<"ok", sz, sc, pad, a>> :
          sz \in OverlaySizes, sc \in 1..Len(ScaleFactors),
          pad \in Paddings, a \in Anchors}

TextChoices(pipeline) ==
  {<<t, "bottom-left", 20, 0, <<0, 0>>, TRUE>> : t \in {None, <<>>}}
  \cup {<<t, pos, 20, ow, <<30, 10>>, ok>> :
          t \in {Blank, Word},
          pos \in IF pipeline = "batch" THEN {"bottom-left"}
                  ELSE {"bottom-left", "top-right"},
          ow \in PipeOutlines, ok \in BOOLEAN}

\* a filesystem with the given paths holding loadable fonts
FsWith(present) == [p \in FontPaths |-> IF p \in present THEN "font" ELSE "absent"]

Init ==
  /\ \E p \in {"batch", "preview"}, f \in Files, b \in BaseSizes :
       \E ov \in OverlayChoices(p), tx \in TextChoices(p) :
          cfg = Config(p, f, b, ov, tx)
  /\ pc = "start"
  /\ output_image = [mode |-> cfg.mode, layers |-> <<>>]
  /\ steps = <<>>
  /\ diag = <<>>
  /\ outcome = "running"
  /\ fs = FsWith({"/usr/share/fonts/truetype/liberation/LiberationSerif-Regular.ttf"})
  /\ font_cache = <<>>
  /\ font_ret = NoFont
  /\ probes = <<>>
  /\ nloads = 0
  /\ call = NoCall
  /\ workers = NoWorkers
  /\ batch = NoBatch

Next ==
  \/ BatchOpen \/ BatchOverlay \/ BatchText \/ BatchFlatten \/ BatchSave
  \/ PreviewCopy \/ PreviewLogo \/ PreviewText \/ PreviewFlatten \/ PreviewSave

Spec == Init /\ [][Next]_vars

(***************************************************************************)
(* apply_text_watermark called on its own, on every combination of its     *)
(* arguments below.                                                        *)
(***************************************************************************)
MaxOutline == 2
TextBoxes == {<<0, 0>>, <<30, 10>>, <<50, 12>>}
TextPaddings == {0, 5, 20}
Positions == Anchors \cup {"center", ""}

InitText ==
  /\ \E b \in BaseSizes, bb \in TextBoxes, pos \in Positions,
        pad \in TextPaddings, ow \in 0..MaxOutline :
       cfg = Config("text", <<FilePng, "RGBA">>, b,
                    <<"none", <<400, 300>>, 1, 10, "bottom-right">>,
                    <<Word, pos, pad, ow, bb, TRUE>>)
  /\ pc = "call"
  /\ output_image = [mode |-> "RGBA", layers |-> <<>>]
  /\ steps = <<>>
  /\ diag = <<>>
  /\ outcome = "running"
  /\ fs = FsWith({})
  /\ font_cache = <<>>
  /\ font_ret = NoFont
  /\ probes = <<>>
  /\ nloads = 0
  /\ call = NoCall
  /\ workers = NoWorkers
  /\ batch = NoBatch

\* one call of apply_text_watermark (lines 174-240)
TextCall ==
  /\ cfg.pipeline = "text" /\ pc = "call"
  /\ output_image' =
       [output_image EXCEPT !.layers = @ \o
          ApplyTextWatermark(W, H, cfg.bbox, cfg.text_position,
                             cfg.text_padding, cfg.outline_width)]
  /\ steps' = Append(steps, "text")
  /\ pc' = "done"
  /\ UNCHANGED <<cfg, diag, outcome>>
  /\ UNCHANGED fontVars
  /\ UNCHANGED loopVars

NextText == TextCall

SpecText == InitText /\ [][NextText]_vars

(***************************************************************************)
(* load_font called on its own.                                            *)
(***************************************************************************)
IdleConfig ==
  Config("font", <<FilePng, "RGBA">>, <<7, 5>>,
         <<"none", <<400, 300>>, 1, 10, "bottom-right">>,
         <<None, "bottom-left", 20, 0, <<0, 0>>, TRUE>>)

\* one call of load_font (lines 76-172)
LoadFontCall(font_name, font_size) ==
  LET lf == LoadFont(font_name, font_size, font_cache, fs, nloads)
  IN  /\ font_cache' = lf.cache
      /\ font_ret' = lf.font
      /\ probes' = lf.probes
      /\ nloads' = lf.n
      /\ call' = [name |-> font_name, size |-> font_size, hit |-> lf.hit,
                  key |-> CacheKey(font_name, font_size)]
      /\ diag' = diag \o Say("font", lf.prints)
      /\ UNCHANGED <<cfg, pc, output_image, steps, outcome, fs>>
      /\ UNCHANGED loopVars

\* the environment installs, removes or damages a font file
FsChange(path, state) ==
  /\ fs[path] # state
  /\ fs' = [fs EXCEPT ![path] = state]
  /\ UNCHANGED <<font_cache, font_ret, probes, nloads, call>>
  /\ UNCHANGED pipeVars
  /\ UNCHANGED loopVars

\* -- cold calls on every filesystem with at most MaxPresent files present
MaxPresent == 2
FileStates == {"font", "corrupt"}
Families == {TimesNewRoman, TimesUpper, Inter, FamilyA}
FontSizes == {0, 40}

InitResolve ==
  /\ \E q \in [1..MaxPresent -> (FontPaths \X FileStates) \cup {<<"", "absent">>}] :
       fs = [p \in FontPaths |->
               IF \E i \in 1..MaxPresent : q[i][1] = p
                 THEN q[CHOOSE i \in 1..MaxPresent :
                          q[i][1] = p /\ \A j \in 1..(i - 1) : q[j][1] # p][2]
                 ELSE "absent"]
  /\ cfg = IdleConfig
  /\ pc = "idle"
  /\ output_image = [mode |-> "RGBA", layers |-> <<>>]
  /\ steps = <<>>
  /\ diag = <<>>
  /\ outcome = "running"
  /\ font_cache = <<>>
  /\ font_ret = NoFont
  /\ probes = <<>>
  /\ nloads = 0
  /\ call = NoCall
  /\ workers = NoWorkers
  /\ batch = NoBatch

NextResolve ==
  \E name \in Families, size \in FontSizes :
     font_cache = <<>> /\ LoadFontCall(name, size)

SpecResolve == InitResolve /\ [][NextResolve]_vars

\* -- repeated calls while the filesystem changes; at most MaxLoads fonts
\* are created
MaxLoads == 2
CacheFamilies == {TimesNewRoman, FamilyA, FamilyA1}
CacheSizes == {1, 11}
CachePaths == {"C:/Windows/Fonts/times.ttf", "arial.ttf"}

InitCache ==
  /\ fs = FsWith({})
  /\ cfg = IdleConfig
  /\ pc = "idle"
  /\ output_image = [mode |-> "RGBA", layers |-> <<>>]
  /\ steps = <<>>
  /\ diag = <<>>
  /\ outcome = "running"
  /\ font_cache = <<>>
  /\ font_ret = NoFont
  /\ probes = <<>>
  /\ nloads = 0
  /\ call = NoCall
  /\ workers = NoWorkers
  /\ batch = NoBatch

NextCache ==
  \/ \E name \in CacheFamilies, size \in CacheSizes :
        /\ (CacheKey(name, size) \in DOMAIN font_cache \/ nloads < MaxLoads)
        /\ LoadFontCall(name, size)
  \/ \E path \in CachePaths, state \in {"absent", "font"} : FsChange(path, state)

SpecCache == InitCache /\ [][NextCache]_vars

(***************************************************************************)
(* load_font called by several threads of one process.  The threads share  *)
(* the module-level _font_cache; a thread can be preempted between the     *)
(* membership test, the resolution and the store.  Each of the three is    *)
(* one step: a dict lookup and a dict store are atomic in CPython, and     *)
(* the resolution touches no shared variable of the program.               *)
(***************************************************************************)
MaxWorkers == 2
WorkerIds == 1..MaxWorkers
WorkerFamilies == {TimesNewRoman, FamilyA}
WorkerSizes == {40}
WorkerPaths == {"C:/Windows/Fonts/times.ttf", "arial.ttf"}

IdleWorker ==
  [at |-> "idle", name |-> <<>>, size |-> 0, key |-> <<>>,
   font |-> NoFont, ret |-> NoFont]

InitWorkers ==
  /\ fs = FsWith({})
  /\ cfg = IdleConfig
  /\ pc = "idle"
  /\ output_image = [mode |-> "RGBA", layers |-> <<>>]
  /\ steps = <<>>
  /\ diag = <<>>
  /\ outcome = "running"
  /\ font_cache = <<>>
  /\ font_ret = NoFont
  /\ probes = <<>>
  /\ nloads = 0
  /\ call = NoCall
  /\ workers = [w \in WorkerIds |-> IdleWorker]
  /\ batch = NoBatch

\* lines 88-90: cache_key = ...; if cache_key in _font_cache: return it
WorkerCheck(w, font_name, font_size) ==
  /\ workers[w].at = "idle"
  /\ LET cache_key == CacheKey(font_name, font_size)
     IN  workers' =
           [workers EXCEPT ![w] =
              IF cache_key \in DOMAIN font_cache
                THEN [at |-> "done", name |-> font_name, size |-> font_size,
                      key |-> cache_key, font |-> NoFont,
                      ret |-> font_cache[cache_key]]
                ELSE [at |-> "resolve", name |-> font_name, size |-> font_size,
                      key |-> cache_key, font |-> NoFont, ret |-> NoFont]]
  /\ UNCHANGED <<batch, fs, font_cache, font_ret, probes, nloads, call>>
  /\ UNCHANGED pipeVars

\* lines 92-168: the thread builds its own font object from the filesystem
WorkerResolve(w) ==
  /\ workers[w].at = "resolve"
  /\ LET r == ResolveFont(workers[w].name, workers[w].size, fs)
         font == [src |-> r.src,
                  size |-> IF r.src = PILDefault THEN 0 ELSE workers[w].size,
                  id |-> nloads + 1]
     IN  /\ workers' = [workers EXCEPT ![w].at = "store", ![w].font = font]
         /\ nloads' = nloads + 1
         /\ diag' = diag \o Say("font", r.prints)
  /\ UNCHANGED <<batch, fs, font_cache, font_ret, probes, call>>
  /\ UNCHANGED <<cfg, pc, output_image, steps, outcome>>

\* lines 171-172: _font_cache[cache_key] = font; return font
WorkerStore(w) ==
  /\ workers[w].at = "store"
  /\ font_cache' = [k \in DOMAIN font_cache \cup {workers[w].key} |->
                      IF k = workers[w].key THEN workers[w].font
                      ELSE font_cache[k]]
  /\ workers' = [workers EXCEPT ![w].at = "done", ![w].ret = workers[w].font]
  /\ UNCHANGED <<batch, fs, font_ret, probes, nloads, call>>
  /\ UNCHANGED pipeVars

NextWorkers ==
  \/ \E w \in WorkerIds, name \in WorkerFamilies, size \in WorkerSizes :
        WorkerCheck(w, name, size)
  \/ \E w \in WorkerIds : WorkerResolve(w)
  \/ \E w \in WorkerIds : WorkerStore(w)
  \/ \E path \in WorkerPaths, state \in {"absent", "font"} : FsChange(path, state)

SpecWorkers == InitWorkers /\ [][NextWorkers]_vars

(***************************************************************************)
(* process_images: the loop over the files of the input tree.  A path is   *)
(* written relative to the input folder, which every path of one run       *)
(* shares.                                                                 *)
(***************************************************************************)
image_extensions ==
  << <<"*", ".", "j", "p", "g">>, <<"*", ".", "j", "p", "e", "g">>,
     <<"*", ".", "p", "n", "g">>, <<"*", ".", "b", "m", "p">>,
     <<"*", ".", "t", "i", "f", "f">>,
     <<"*", ".", "J", "P", "G">>, <<"*", ".", "J", "P", "E", "G">>,
     <<"*", ".", "P", "N", "G">>, <<"*", ".", "B", "M", "P">>,
     <<"*", ".", "T", "I", "F", "F">> >>

\* fnmatch of a file name against a pattern '*<suffix>': the star matches no
\* leading dot; casefold is a platform whose os.path.normcase lowers case
\* and whose file names are unique up to case (Windows)
Matches(name, pattern, casefold) ==
  /\ name # <<>> /\ Head(name) # "."
  /\ IF casefold THEN EndsWith(StrLower(name), StrLower(Tail(pattern)))
     ELSE EndsWith(name, Tail(pattern))

\* glob.glob(pattern, recursive=True): the matching paths, in no fixed order
Glob(tree, pattern, casefold) ==
  {f.name : f \in {g \in tree : Matches(g.name, pattern, casefold)}}

\* os.path.splitext(path)[0]
SplitRoot(s) == SubSeq(s, 1, Len(s) - Len(SplitExt(s)))

TxtExt == <<".", "t", "x", "t">>
\* the one text file the tree may hold next to the images
SidecarName == <<"a", ".", "t", "x", "t">>

\* find_text_file(image_path); sidecar is the state of the file SidecarName
FindTextFile(image_path, sidecar, casefold) ==
  LET text_file_path == SplitRoot(image_path) \o TxtExt
  IN  IF /\ sidecar[1] # "absent"
         /\ \/ text_file_path = SidecarName
            \/ casefold /\ StrLower(text_file_path) = StrLower(SidecarName)
        THEN text_file_path
        ELSE None

\* read_watermark_text: [text, prints]
ReadWatermarkText(sidecar) ==
  IF sidecar[1] = "unreadable"
    THEN [text |-> None, prints |-> <<"Error reading text file">>]
    ELSE LET text == Strip(sidecar[2])
         IN  [text |-> IF text # <<>> THEN text ELSE None, prints |-> <<>>]

\* lines 401-403: what the handler around apply_watermark prints
ReportKind(how) == IF how = "raised" THEN "Error processing" ELSE "Processed"

MaxFiles == 2
TreeNames == {FileJpg, FileJPG, FilePng, <<"a", ".", "J", "p", "g">>,
              <<"b", ".", "j", "p", "g">>}
\* an image of 7x5 makes the resized overlay 1x0, which resize refuses
TreeFiles == {[name |-> n, base |-> b] : n \in TreeNames, b \in {<<100, 60>>, <<7, 5>>}}
Sidecars == {<<"absent">>, <<"unreadable">>, <<"text", Blank>>,
             <<"text", <<" ", "a", "\n">>>>}

Trees(casefold) ==
  {t \in SUBSET TreeFiles :
     /\ Cardinality(t) <= MaxFiles
     /\ \A f, g \in t :
          f # g => /\ f.name # g.name
                   /\ casefold => StrLower(f.name) # StrLower(g.name)}

InitImages ==
  /\ \E casefold \in BOOLEAN :
       \E tree \in Trees(casefold), wm \in {"ok", "corrupt"}, sidecar \in Sidecars :
          batch = [at |-> "glob", casefold |-> casefold, tree |-> tree,
                   wm |-> wm, sidecar |-> sidecar, extension |-> 1,
                   pending |-> {}, processed_files |-> {}, image_path |-> <<>>,
                   calls |-> <<>>, reports |-> <<>>]
  /\ cfg = IdleConfig
  /\ pc = "loop"
  /\ output_image = [mode |-> "RGBA", layers |-> <<>>]
  /\ steps = <<>>
  /\ diag = <<>>
  /\ outcome = "running"
  /\ fs = FsWith({"/usr/share/fonts/truetype/liberation/LiberationSerif-Regular.ttf"})
  /\ font_cache = <<>>
  /\ font_ret = NoFont
  /\ probes = <<>>
  /\ nloads = 0
  /\ call = NoCall
  /\ workers = NoWorkers

\* lines 368-370: the next pattern is globbed, or the patterns are exhausted
ImagesGlob ==
  /\ batch.at = "glob"
  /\ batch' =
       IF batch.extension > Len(image_extensions)
         THEN [batch EXCEPT !.at = "finished"]
         ELSE [batch EXCEPT
                 !.at = "files",
                 !.pending = Glob(batch.tree, image_extensions[batch.extension],
                                  batch.casefold)]
  /\ UNCHANGED workers
  /\ UNCHANGED pipeVars
  /\ UNCHANGED fontVars

\* lines 372-373: a path whose lower-case form was seen is passed over
ImagesSkip(image_path) ==
  /\ batch.at = "files"
  /\ image_path \in batch.pending
  /\ StrLower(image_path) \in batch.processed_files
  /\ batch' = [batch EXCEPT !.pending = @ \ {image_path}]
  /\ UNCHANGED workers
  /\ UNCHANGED pipeVars
  /\ UNCHANGED fontVars

\* lines 375-399: the path is recorded, its text file is looked up and read,
\* and apply_watermark is entered
ImagesBegin(image_path) ==
  /\ batch.at = "files"
  /\ image_path \in batch.pending
  /\ StrLower(image_path) \notin batch.processed_files
  /\ LET file == CHOOSE f \in batch.tree : f.name = image_path
         text_file_path == FindTextFile(image_path, batch.sidecar, batch.casefold)
         read == IF text_file_path # None THEN ReadWatermarkText(batch.sidecar)
                 ELSE [text |-> None, prints |-> <<>>]
         text_watermark == read.text
     IN  /\ batch' = [batch EXCEPT
                        !.at = "file",
                        !.pending = @ \ {image_path},
                        !.processed_files = @ \cup {StrLower(image_path)},
                        !.image_path = image_path,
                        !.calls = Append(@, image_path)]
         /\ cfg' = Config("batch", <<image_path, "RGB">>, file.base,
                          <<batch.wm, <<400, 300>>, 1, 10, "bottom-right">>,
                          <<text_watermark, "bottom-left", 20, 2,
                            IF Truthy(text_watermark) THEN <<30, 10>> ELSE <<0, 0>>,
                            TRUE>>)
         /\ diag' = diag \o Say("sidecar", read.prints)
                    \o Say("sidecar", IF Truthy(text_watermark)
                                        THEN <<"Found text watermark">> ELSE <<>>)
  /\ pc' = "start"
  /\ output_image' = [mode |-> "RGB", layers |-> <<>>]
  /\ steps' = <<>>
  /\ outcome' = "running"
  /\ UNCHANGED workers
  /\ UNCHANGED fontVars

\* lines 389-403: apply_watermark returned or raised; one line is printed and
\* the loop goes on
ImagesReport ==
  /\ batch.at = "file"
  /\ pc \in {"done", "raised"}
  /\ batch' = [batch EXCEPT
                 !.at = "files",
                 !.reports = Append(@, [kind |-> ReportKind(pc),
                                        path |-> batch.image_path])]
  /\ pc' = "loop"
  /\ UNCHANGED <<cfg, output_image, steps, diag, outcome>>
  /\ UNCHANGED workers
  /\ UNCHANGED fontVars

\* line 370: the paths of this pattern are exhausted
ImagesNext ==
  /\ batch.at = "files"
  /\ batch.pending = {}
  /\ batch' = [batch EXCEPT !.at = "glob", !.extension = @ + 1]
  /\ UNCHANGED workers
  /\ UNCHANGED pipeVars
  /\ UNCHANGED fontVars

NextImages ==
  \/ ImagesGlob
  \/ \E f \in TreeFiles : ImagesSkip(f.name)
  \/ \E f \in TreeFiles : ImagesBegin(f.name)
  \/ BatchOpen \/ BatchOverlay \/ BatchText \/ BatchFlatten \/ BatchSave
  \/ ImagesReport
  \/ ImagesNext

SpecImages == InitImages /\ [][NextImages]_vars

(***************************************************************************)
(* Properties of the pipelines (specification Spec).                       *)
(***************************************************************************)
Layers(kind) == SelectSeq(output_image.layers, LAMBDA l : l.kind = kind)
Ran(step) == \E i \in 1..Len(steps) : steps[i] = step
Ended == pc \in {"done", "raised"}
DiagCount(step) == Cardinality({i \in 1..Len(diag) : diag[i].step = step})
TextConfigured == cfg.text # None /\ Strip(cfg.text) # <<>>

\* the four-corner formula of the text layout, for an item of size <<w, h>>
FourCorner(anchor, p, size) ==
  CASE anchor = "top-left" -> <<p, p>>
    [] anchor = "top-right" -> <<W - size[1] - p, p>>
    [] anchor = "bottom-left" -> <<p, H - size[2] - p>>
    [] anchor = "bottom-right" -> <<W - size[1] - p, H - size[2] - p>>

\* C1: when apply_watermark is given an overlay file that exists but cannot
\* be opened, and a text watermark, the invocation still ends with the text
\* drawn on the surface without overlay, the output saved, and no exception
\* raised to the caller.
C1_OverlayFailureDoesNotAbort ==
  (cfg.pipeline = "batch" /\ cfg.wm = "corrupt" /\ TextConfigured
     /\ cfg.measure_ok /\ Ended)
  => /\ outcome = "saved"
     /\ Ran("text")
     /\ Layers("overlay") = <<>>
     /\ Layers("text") # <<>>

\* C2: when the overlay path does not exist, apply_watermark raises nothing,
\* saves an output with only the text step applied (if text is configured),
\* and has emitted exactly one overlay-failure diagnostic.
C2_MissingOverlayOneDiagnostic ==
  (cfg.pipeline = "batch" /\ cfg.wm = "missing" /\ Ended)
  => /\ outcome = "saved"
     /\ Layers("overlay") = <<>>
     /\ (TextConfigured /\ cfg.measure_ok => Layers("text") # <<>>)
     /\ DiagCount("overlay") = 1

\* C3 as stated: in both pipelines the overlay is pasted at the origin the
\* four-corner formula gives for the configured anchor.
C3_OverlayHonoursAnchor ==
  \A i \in 1..Len(output_image.layers) :
     LET l == output_image.layers[i]
     IN  l.kind = "overlay"
         => l.xy = FourCorner(cfg.logo_position, cfg.padding, l.arg)

\* C3 amended: the preview pastes the overlay at the four-corner origin of
\* the configured anchor; apply_watermark, which takes no anchor, always
\* pastes it at the bottom-right origin (W-w-p, H-h-p).
C3_OverlayOrigin ==
  \A i \in 1..Len(output_image.layers) :
     LET l == output_image.layers[i]
     IN  l.kind = "overlay"
         => l.xy = FourCorner(IF cfg.pipeline = "preview"
                                THEN cfg.logo_position ELSE "bottom-right",
                              cfg.padding, l.arg)

C3_Witness ==
  /\ cfg.pipeline = "preview"
  /\ cfg.logo_position = "top-right"
  /\ cfg.padding > 0
  /\ Layers("overlay") # <<>>
  /\ pc = "done"

\* the integers nearest to a / b (both, on a tie)
Nearest(a, b) == {n \in (a \div b)..(a \div b + 1) : 2 * n * b - 2 * a \in (0 - b)..b}

TheScale == ScaleFactors[cfg.scale]

\* C4 as stated: the resized overlay is round(W * scale) wide and
\* round(width * overlay.height / overlay.width) high, rounded to nearest.
C4_OverlaySizeRounded ==
  \A i \in 1..Len(output_image.layers) :
     LET l == output_image.layers[i]
     IN  l.kind = "overlay"
         => /\ l.arg[1] \in Nearest(W * TheScale.num, TheScale.den)
            /\ l.arg[2] \in Nearest(l.arg[1] * cfg.wm_size[2], cfg.wm_size[1])

\* C4 amended: the width is int(W * scale), the double product truncated:
\* the floor of the exact product, or one less than an exact product that is
\* an integer; the height is the floor of width * overlay.height /
\* overlay.width; base 1000x800, overlay 400x300, scale 0.2, bottom-right,
\* padding 10 gives 200x150 at (790, 640).
C4_OverlaySizeTruncated ==
  \A i \in 1..Len(output_image.layers) :
     LET l == output_image.layers[i]
         exact == W * TheScale.num
         w == l.arg[1]
         h == l.arg[2]
     IN  l.kind = "overlay"
         => /\ \/ w = exact \div TheScale.den
               \/ exact % TheScale.den = 0 /\ w = exact \div TheScale.den - 1
            /\ h * cfg.wm_size[1] <= w * cfg.wm_size[2]
            /\ w * cfg.wm_size[2] < (h + 1) * cfg.wm_size[1]
            /\ (/\ cfg.base = <<1000, 800>> /\ cfg.wm_size = <<400, 300>>
                /\ TheScale.num = 20 /\ cfg.padding = 10
                /\ (cfg.pipeline = "preview" => cfg.logo_position = "bottom-right"))
               => l.arg = <<200, 150>> /\ l.xy = <<790, 640>>

\* an overlay was pasted whose exact width has a fraction above one half
C4_Witness ==
  /\ Layers("overlay") # <<>>
  /\ 2 * ((W * TheScale.num) % TheScale.den) > TheScale.den
  /\ pc = "done"

\* C5: the text step (font resolution, layout, render) runs if and only if
\* the text is configured and non-empty after trimming whitespace; a text of
\* whitespace only causes no font resolution and no draw call.
C5_TextStepIffNonBlank ==
  pc \in {"flatten", "save", "done"}
  => /\ Ran("font") <=> TextConfigured
     /\ ~TextConfigured => nloads = 0 /\ call = NoCall /\ Layers("text") = <<>>

Rank(step) ==
  CASE step = "rgba" -> 1 [] step = "overlay" -> 2 [] step = "font" -> 3
    [] step = "text" -> 4 [] step = "flatten" -> 5 [] step = "save" -> 6

\* C8: the steps of an invocation occur in the order RGBA normalisation,
\* overlay compositing, text rendering, flattening, save; the surface is
\* flattened to RGB exactly when the destination is .jpg/.jpeg in any letter
\* case and is RGBA otherwise; every text draw lies over the overlay.
C8_StepOrder ==
  /\ \A i, j \in 1..Len(steps) : i < j => Rank(steps[i]) < Rank(steps[j])
  /\ steps # <<>> => steps[1] = "rgba"
  /\ Ran("overlay") => cfg.wm = "ok"
  /\ Ran("text") => Truthy(cfg.text)
  /\ \A i, j \in 1..Len(output_image.layers) :
        (output_image.layers[i].kind = "overlay"
           /\ output_image.layers[j].kind = "text") => i < j
  /\ pc \in {"save", "done"}
     => /\ Ran("flatten") <=> cfg.name \in {FileJpg, FileJPG}
        /\ output_image.mode = IF cfg.name \in {FileJpg, FileJPG}
                                 THEN "RGB" ELSE "RGBA"
        /\ Len(Layers("overlay")) = (IF Ran("overlay") THEN 1 ELSE 0)
        /\ Ran("text") <=> Layers("text") # <<>>

C8_Witness ==
  /\ pc = "done"
  /\ steps = <<"rgba", "overlay", "font", "text", "flatten", "save">>
  /\ cfg.name = FileJPG
  /\ cfg.pipeline = "batch"

(***************************************************************************)
(* Properties of apply_text_watermark (specification SpecText).            *)
(***************************************************************************)
Draws == output_image.layers
Fill == Draws[Len(Draws)]

\* C6: the draw origin is (p, p) for top-left, (W-tw-p, p) for top-right,
\* (p, H-th-p) for bottom-left, (W-tw-p, H-th-p) for bottom-right, and the
\* bottom-left origin for any other position value; it is not clamped.
C6_TextOrigin ==
  (cfg.pipeline = "text" /\ pc = "done")
  => /\ Draws # <<>>
     /\ Fill.xy = FourCorner(IF cfg.text_position \in Anchors
                               THEN cfg.text_position ELSE "bottom-left",
                             cfg.text_padding, cfg.bbox)

\* an unrecognized position drawn at a negative bottom-left origin
C6_Witness ==
  /\ cfg.pipeline = "text" /\ pc = "done"
  /\ cfg.text_position = "center"
  /\ Fill.xy[1] = cfg.text_padding
  /\ Fill.xy[2] < 0

\* C7: with outline width w >= 0 the draws are one outline-colour draw at
\* (x+dx, y+dy) for every (dx, dy) in [-w, w] x [-w, w] except (0, 0), that
\* is (2w+1)^2 - 1 of them, followed by exactly one fill-colour draw at
\* (x, y), which is the last; with w = 0 only the fill is drawn.
C7_DrawSequence ==
  (cfg.pipeline = "text" /\ pc = "done")
  => LET w == cfg.outline_width
         n == (2 * w + 1) * (2 * w + 1)
         o == FourCorner(IF cfg.text_position \in Anchors
                           THEN cfg.text_position ELSE "bottom-left",
                         cfg.text_padding, cfg.bbox)
     IN  /\ Len(Draws) = n
         /\ Draws[n] = [kind |-> "text", xy |-> o, arg |-> "color"]
         /\ \A i \in 1..(n - 1) : Draws[i].arg = "outline_color"
         /\ \A dx, dy \in (0 - w)..w :
               (dx # 0 \/ dy # 0)
               => Cardinality({i \in 1..(n - 1) :
                                 Draws[i].xy = <<o[1] + dx, o[2] + dy>>}) = 1

C7_Witness ==
  /\ cfg.pipeline = "text" /\ pc = "done"
  /\ cfg.outline_width = 2
  /\ Len(Draws) = 25
  /\ Draws[24].arg = "outline_color"
  /\ Draws[25].arg = "color"

(***************************************************************************)
(* Properties of load_font (specifications SpecResolve and SpecCache).     *)
(***************************************************************************)
Loadable(path, size) == fs[path] = "font" /\ size > 0

FirstLoadable(paths, size) ==
  paths[CHOOSE i \in 1..Len(paths) :
          /\ Loadable(paths[i], size)
          /\ \A j \in 1..(i - 1) : ~Loadable(paths[j], size)]

FamilyList(name) ==
  IF name \in {TimesNewRoman, TimesUpper} THEN times_paths
  ELSE IF name = Inter THEN inter_paths
  ELSE <<>>

\* C9: load_font returns a font for any family and size: the first path of
\* the family's candidate list that exists and loads, otherwise the first
\* loadable entry of the fallback list, otherwise the built-in default.
C9_FontChain ==
  call # NoCall
  => LET own == FamilyList(call.name)
     IN  /\ font_ret # NoFont
         /\ font_ret.src =
              IF \E i \in 1..Len(own) : Loadable(own[i], call.size)
                THEN FirstLoadable(own, call.size)
              ELSE IF \E i \in 1..Len(fallback_fonts) :
                         Loadable(fallback_fonts[i], call.size)
                THEN FirstLoadable(fallback_fonts, call.size)
              ELSE PILDefault

\* the family's first existing file does not load and a fallback is used
C9_Witness ==
  /\ call # NoCall
  /\ call.name = TimesUpper
  /\ \E i \in 1..Len(times_paths) : fs[times_paths[i]] = "corrupt"
  /\ font_ret.src \in Range(fallback_fonts)

\* C10: a cache entry, once made, is never changed or removed; a call whose
\* (family, size) is cached returns the cached resource and probes no path,
\* whatever calls and filesystem changes came between; different (family,
\* size) pairs have different keys and different resources.
C10_CacheStable ==
  /\ [](/\ call.hit => font_ret = font_cache[call.key] /\ probes = <<>>
        /\ call # NoCall => font_ret.size \in {call.size, 0}
        /\ \A f1, f2 \in CacheFamilies, s1, s2 \in CacheSizes :
              <<f1, s1>> # <<f2, s2>> => CacheKey(f1, s1) # CacheKey(f2, s2)
        /\ \A k1, k2 \in DOMAIN font_cache :
              k1 # k2 => font_cache[k1].id # font_cache[k2].id)
  /\ [][\A k \in DOMAIN font_cache :
           k \in DOMAIN font_cache' /\ font_cache'[k] = font_cache[k]]_vars

\* a cached font is returned although the filesystem now resolves the same
\* request to another file
C10_Witness ==
  /\ call.hit
  /\ Cardinality(DOMAIN font_cache) = 2
  /\ font_ret.src # ResolveFont(call.name, call.size, fs).src

(***************************************************************************)
(* Properties of load_font under threads (specification SpecWorkers).      *)
(***************************************************************************)
\* two font resources are interchangeable: same file, same pixel size
Equivalent(a, b) == a.src = b.src /\ a.size = b.size

AllReturned == \A w \in WorkerIds : workers[w].at = "done"

\* C11: when threads call load_font concurrently, once all of them have
\* returned the cache holds exactly the requested keys, one entry each, and
\* every caller holds a resource equivalent to the entry of its key; every
\* entry is a font built for its key; a step that stores under one key leaves
\* the entries of the other keys as they were.
C11_InsertIfAbsent ==
  /\ [](/\ AllReturned =>
             /\ DOMAIN font_cache = {workers[w].key : w \in WorkerIds}
             /\ \A w \in WorkerIds :
                   Equivalent(workers[w].ret, font_cache[workers[w].key])
        /\ \A k \in DOMAIN font_cache :
              /\ font_cache[k].id \in 1..nloads
              /\ font_cache[k].size \in WorkerSizes \cup {0}
              /\ \E w \in WorkerIds : workers[w].key = k)
  /\ [][\A w \in WorkerIds :
          workers[w].at = "store" /\ workers'[w].at = "done" =>
            \A k \in DOMAIN font_cache :
               k # workers[w].key =>
                 k \in DOMAIN font_cache' /\ font_cache'[k] = font_cache[k]]_vars

(***************************************************************************)
(* Properties of process_images (specification SpecImages).                *)
(***************************************************************************)
\* the image files of the tree that some pattern matches
Discovered ==
  {f \in batch.tree :
     \E i \in 1..Len(image_extensions) :
        Matches(f.name, image_extensions[i], batch.casefold)}

Attempts(name) ==
  Cardinality({i \in 1..Len(batch.calls) : batch.calls[i] = name})

Reports(name, kind) ==
  Cardinality({i \in 1..Len(batch.reports) :
                 batch.reports[i].path = name /\ batch.reports[i].kind = kind})

\* C12: a file whose apply_watermark raised gets an "Error processing" line
\* and the loop goes on: once the run is over, if some file failed, every
\* discovered file was still attempted; a file whose attempt is over has one
\* line, "Processed" or "Error processing", and a file under way has none.
C12_FailureDoesNotStopBatch ==
  /\ batch.at = "finished" /\ (\E f \in Discovered : Reports(f.name, "Error processing") > 0)
       => \A f \in Discovered : Attempts(f.name) > 0
  /\ batch.at # "off" =>
       \A f \in batch.tree :
          /\ Reports(f.name, "Processed") + Reports(f.name, "Error processing")
               = Attempts(f.name)
                 - (IF batch.at = "file" /\ batch.image_path = f.name THEN 1 ELSE 0)
          /\ Reports(f.name, "Processed") + Reports(f.name, "Error processing") <= 1

\* C13: once the run is over, every image file of the tree that a pattern
\* matches was passed to apply_watermark exactly once.
C13_EachFileOnce ==
  batch.at = "finished" => \A f \in Discovered : Attempts(f.name) = 1

====
